---- MODULE Spec2Model ----
(***************************************************************************)
(* Model of academic_keyword_analyzer.py: the command surface (main,       *)
(* get_user_input), the analysis workflow (analyze_keyword), the           *)
(* year-range acquisition loop (get_paper_count_by_year) and the remote    *)
(* request (search_papers).                                                *)
(*                                                                         *)
(* Strings are sequences of characters.  A JSON value of the response's    *)
(* "total" field is a record [type, n]: a number, null (any non-number),   *)
(* or missing.  Python's None for a whole response is [none |-> TRUE].     *)
(* Time is in seconds; random.uniform(2, 3) is a choice among the whole    *)
(* seconds of its interval.                                                *)
(***************************************************************************)
EXTENDS Integers, Sequences, FiniteSets, TLC

\* ---------------------------------------------------------------- bounds
\* The year the run takes place in (datetime.now().year).
NowYear == 2026
\* Inputs are year ranges of at most this many years.
MaxSpan == 2
\* The remote service reports totals 0..MaxTotal.
MaxTotal == 2

\* ------------------------------------------------------ program constants
MinYear == 1800
MaxAttempts == 3
ApiMaxLimit == 100
RequestedLimit == 100
CoolDown == 60
RetryDelay == 5
YearDelayMin == 2
YearDelayMax == 3

\* ----------------------------------------------------------------- inputs
\* What a user can type as a search term (raw, before any strip()).
RawTerms == { <<>>, <<" ">>, <<" ", "q">> }

\* Years a user can type: the year 0, the years around the start of the
\* accepted window [MinYear, NowYear + 1], and those around its end.
YearInputs == {0, MinYear - 1, MinYear} \cup ((NowYear - MaxSpan + 2) .. (NowYear + 2))

\* Year ranges a run is started with (start > end included).
YearPairs == { p \in YearInputs \X YearInputs : p[2] - p[1] < MaxSpan }

\* ------------------------------------------------------------ JSON values
JNum(n) == [type |-> "number", n |-> n]
JNull == [type |-> "null", n |-> 0]
JMissing == [type |-> "missing", n |-> 0]

IsNumber(v) == v.type = "number"

\* What requests.get + raise_for_status + json() can yield for one request.
HttpOutcomes ==
    { [status |-> "ok", total |-> JNum(t)] : t \in 0..MaxTotal }
    \cup { [status |-> "ok", total |-> JNull],
           [status |-> "ok", total |-> JMissing],
           [status |-> "rate_limited", total |-> JMissing],
           [status |-> "http_error", total |-> JMissing],
           [status |-> "network_error", total |-> JMissing] }

\* The value search_papers returns: None, or the decoded body.
NoneResponse == [none |-> TRUE, total |-> JMissing]
Body(total) == [none |-> FALSE, total |-> total]

\* ------------------------------------------------------------- str.strip()
RECURSIVE LStrip(_)
LStrip(s) ==
    IF s = <<>> THEN s
    ELSE IF Head(s) = " " THEN LStrip(Tail(s)) ELSE s

RECURSIVE RStrip(_)
RStrip(s) ==
    IF s = <<>> THEN s
    ELSE IF s[Len(s)] = " " THEN RStrip(SubSeq(s, 1, Len(s) - 1)) ELSE s

Strip(s) == RStrip(LStrip(s))

VARIABLES
    pc,             \* position of the single thread of control
    mode,           \* "none", "cli", "interactive", "api" (analyze_keyword called as a library)
    search_term, start_year, end_year, generate_chart, verbose,
    year, attempt,  \* loop variables of get_paper_count_by_year
    request,        \* params of the last request issued
    response,       \* what search_papers returned for it
    http,           \* outcome of the outstanding requests.get
    results,        \* the accumulating [year, count] rows
    log,            \* events of the year being processed, oldest first
    downgraded,     \* years reported as "Could not get results ... after 3 attempts"
    dir_created, csv_attempted, csv_written, chart_attempted, chart_written,
    summary,        \* the dict analyze_keyword returns
    error,          \* the exception that ended the run, "" if none
    exit_code       \* process exit status, -1 while running or when not a process

vars == << pc, mode, search_term, start_year, end_year, generate_chart, verbose,
           year, attempt, request, response, http, results, log, downgraded,
           dir_created, csv_attempted, csv_written, chart_attempted, chart_written,
           summary, error, exit_code >>

inputVars == << search_term, start_year, end_year, generate_chart, verbose >>
loopVars == << year, attempt, request, response, http, results, log, downgraded >>
exportVars == << dir_created, csv_attempted, csv_written, chart_attempted,
                 chart_written, summary >>

NoRequest == [query |-> <<>>, has_year |-> FALSE, year |-> 0, limit |-> 0, offset |-> 0]
NoSummary == [present |-> FALSE, total_papers |-> 0, avg_num |-> 0, avg_den |-> 1,
              peak_year |-> <<>>, peak_papers |-> JNum(0)]
NoHttp == [status |-> "none", total |-> JMissing]

Init ==
    /\ pc = "main"
    /\ mode = "none"
    /\ search_term = <<>>
    /\ start_year = 0
    /\ end_year = 0
    /\ generate_chart = TRUE
    /\ verbose = TRUE
    /\ year = 0
    /\ attempt = 0
    /\ request = NoRequest
    /\ response = NoneResponse
    /\ http = NoHttp
    /\ results = <<>>
    /\ log = <<>>
    /\ downgraded = {}
    /\ dir_created = FALSE
    /\ csv_attempted = FALSE
    /\ csv_written = FALSE
    /\ chart_attempted = FALSE
    /\ chart_written = FALSE
    /\ summary = NoSummary
    /\ error = ""
    /\ exit_code = -1

\* ------------------------------------------------------------- exceptions
\* An exception leaving analyze_keyword or get_user_input: main's handlers
\* (372-377, 406-411) print it and sys.exit(1); a library caller receives it.
\* Variant: the handler prints the error and main ends normally.
FailureStatus_Success(err) == 0

\* The status main's handlers exit with (374, 377, 408, 411).
FailureStatus(err) == 1

Raise(err) ==
    /\ error' = err
    /\ pc' = IF mode = "api" THEN "raised" ELSE "exit"
    /\ exit_code' = IF mode = "api" THEN exit_code ELSE FailureStatus(err)

\* Variant: the order of the two years is not checked.
RangeReversed_Unchecked(s, e) == FALSE

\* The range checks of the command-line mode (381, 385).
RangeReversed(s, e) == s > e

RangeUnreasonable(s, e) == s < MinYear \/ e > NowYear + 1

\* ------------------------------------------------------------------- main
\* parser.parse_args() and the choice of input mode (348-351).  With the
\* three positionals present the run is scripted, otherwise interactive.
ParseArgs ==
    /\ pc = "main"
    /\ \E complete \in BOOLEAN :
         IF complete
         THEN \E term \in RawTerms, p \in YearPairs, no_chart \in BOOLEAN, quiet \in BOOLEAN :
                /\ mode' = "cli"
                /\ search_term' = term
                /\ start_year' = p[1]
                /\ end_year' = p[2]
                /\ generate_chart' = ~no_chart
                /\ verbose' = ~quiet
                /\ pc' = "validate"
         ELSE /\ mode' = "interactive"
              /\ pc' = "prompt_term"
              /\ UNCHANGED inputVars
    /\ UNCHANGED << loopVars, exportVars, error, exit_code >>

\* Command-line mode: the two range checks (381-387), then analyze_keyword.
ValidateArgs ==
    /\ pc = "validate"
    /\ IF RangeReversed(start_year, end_year)
       THEN /\ pc' = "exit"
            /\ exit_code' = 1
       ELSE IF RangeUnreasonable(start_year, end_year)
       THEN /\ pc' = "exit"
            /\ exit_code' = 1
       ELSE /\ pc' = "analyze"
            /\ UNCHANGED exit_code
    /\ UNCHANGED << mode, inputVars, loopVars, exportVars, error >>

\* --------------------------------------------------------- get_user_input
\* One turn of the search-term prompt loop (264-268).
PromptSearchTerm ==
    /\ pc = "prompt_term"
    /\ \E raw \in RawTerms :
         LET typed == Strip(raw) IN
         IF typed # <<>>
         THEN /\ search_term' = typed
              /\ pc' = "prompt_start"
         ELSE UNCHANGED << search_term, pc >>
    /\ UNCHANGED << mode, start_year, end_year, generate_chart, verbose,
                    loopVars, exportVars, error, exit_code >>

\* One turn of the start-year prompt loop (271-279).
PromptStartYear ==
    /\ pc = "prompt_start"
    /\ \E y \in YearInputs :
         IF MinYear <= y /\ y <= NowYear + 1
         THEN /\ start_year' = y
              /\ pc' = "prompt_end"
         ELSE UNCHANGED << start_year, pc >>
    /\ UNCHANGED << mode, search_term, end_year, generate_chart, verbose,
                    loopVars, exportVars, error, exit_code >>

\* One turn of the end-year prompt loop (282-290).  Only ranges within the
\* input bound are typed.
PromptEndYear ==
    /\ pc = "prompt_end"
    /\ \E y \in YearInputs :
         /\ << start_year, y >> \in YearPairs
         /\ IF start_year <= y /\ y <= NowYear + 1
            THEN /\ end_year' = y
                 /\ pc' = "prompt_options"
            ELSE UNCHANGED << end_year, pc >>
    /\ UNCHANGED << mode, search_term, start_year, generate_chart, verbose,
                    loopVars, exportVars, error, exit_code >>

\* The optional settings (297-313) and the return to main.
PromptOptions ==
    /\ pc = "prompt_options"
    /\ \E chart \in BOOLEAN, v \in BOOLEAN :
         /\ generate_chart' = chart
         /\ verbose' = v
    /\ pc' = "analyze"
    /\ UNCHANGED << mode, search_term, start_year, end_year,
                    loopVars, exportVars, error, exit_code >>

\* analyze_keyword called directly by a program that imports the class: no
\* validation stands before it.
CallAnalyzeKeyword ==
    /\ pc = "main"
    /\ \E term \in RawTerms, p \in YearPairs, chart \in BOOLEAN, v \in BOOLEAN :
         /\ search_term' = term
         /\ start_year' = p[1]
         /\ end_year' = p[2]
         /\ generate_chart' = chart
         /\ verbose' = v
    /\ mode' = "api"
    /\ pc' = "analyze"
    /\ UNCHANGED << loopVars, exportVars, error, exit_code >>

\* ---------------------------------------------------------- search_papers
\* The request parameters (62-70): the limit is capped, and the year filter
\* is set only for a truthy year.
SearchParams(query, y, limit, offset) ==
    [query |-> query,
     has_year |-> (y # 0),
     year |-> y,
     limit |-> IF limit < ApiMaxLimit THEN limit ELSE ApiMaxLimit,
     offset |-> offset]

\* What search_papers returns for an outcome of the request (72-86): the
\* decoded body of a 2xx answer, None for every error.
SearchResult(h) ==
    IF h.status = "ok" THEN Body(h.total) ELSE NoneResponse

\* Variant: a 429 is handled like any other error status, with no cool-down.
NeedsCoolDown_Never(h) == FALSE

\* The test of line 77: the answer is a 429 and the cool-down follows.
NeedsCoolDown(h) == h.status = "rate_limited"

\* --------------------------------------------- get_paper_count_by_year
\* Variant: response and response.get('total'), which takes a total of 0
\* for a failure.
IsSuccess_TruthyTotal(r) ==
    (~r.none) /\ r.total.type # "missing" /\ ~(r.total.type = "number" /\ r.total.n = 0)

\* The test of line 111: response and 'total' in response.
IsSuccess(r) == (~r.none) /\ r.total.type # "missing"

\* Variant: range(2), a single retry.
MayRetry_OneRetry(a) == a < MaxAttempts - 2

\* Variant: one attempt too many before giving up.
MayRetry_OffByOne(a) == a < MaxAttempts

\* The test of line 117: this was not the last attempt.
MayRetry(a) == a < MaxAttempts - 1

\* Variant: range(start_year, end_year), the end year left out.
LoopContinues_ExclusiveEnd(y, e) == y < e

\* range(start_year, end_year + 1) of line 103 has another year to give.
LoopContinues(y, e) == y <= e

\* Variant: no break, the remaining attempts are made after a success.
AfterSuccess_NoBreak(a) == IF MayRetry(a) THEN "retry_sleep" ELSE "year_sleep"

\* The break of line 116: after a recorded success the attempts of the year
\* are over.
AfterSuccess(a) == "year_sleep"

Event(ev, kind, val) == [ev |-> ev, kind |-> kind, val |-> val]

\* Variant: the delay is taken between years only, not after the last.
YearDelayLog_NotAfterLast(l, y, e, d) ==
    IF y < e THEN Append(l, Event("sleep", "year", d)) ELSE l

\* Variant: the delay is skipped after a year that was given up.
YearDelayLog_OnlyAfterSuccess(l, y, e, d) ==
    IF l[Len(l)].kind = "failed" THEN l ELSE Append(l, Event("sleep", "year", d))

\* Line 127, after the attempts of year y of a range ending at e: the
\* delay of d seconds, unconditionally.
YearDelayLog(l, y, e, d) == Append(l, Event("sleep", "year", d))

\* How an outcome of a request shows in the log: its class, and the total
\* when it is a number.
ResponseEvent(h) ==
    IF h.status = "ok"
    THEN Event("response",
               CASE h.total.type = "number" -> "ok"
                 [] h.total.type = "null" -> "ok_non_number"
                 [] OTHER -> "ok_no_total",
               h.total.n)
    ELSE Event("response", h.status, 0)

\* A row of results: [year, count].
Row(y, c) == << y, c >>

\* Lines 115 and 124: the row appended for a year.
RecordSuccess(rows, y, c) == Append(rows, Row(y, c))

\* Variant: a year whose attempts all failed is left out.
RecordFailure_Omitted(rows, y) == rows

\* Variant: a year whose attempts all failed is recorded with None.
RecordFailure_Marked(rows, y) == Append(rows, Row(y, JNull))

RecordFailure(rows, y) == Append(rows, Row(y, JNum(0)))

HasNonNumber(rows) == \E i \in 1..Len(rows) : ~IsNumber(rows[i][2])

\* ------------------------------------------------------- analyze_keyword
\* Variant: the sum runs over the wrong column, row[0].
RECURSIVE SumCounts_WrongColumn(_)
SumCounts_WrongColumn(rows) ==
    IF rows = <<>> THEN 0
    ELSE Head(rows)[1] + SumCounts_WrongColumn(Tail(rows))

\* Line 229: sum(row[1] for row in results), over rows with numeric counts.
RECURSIVE SumCounts(_)
SumCounts(rows) ==
    IF rows = <<>> THEN 0
    ELSE Head(rows)[2].n + SumCounts(Tail(rows))

\* Variant: a later row with an equal count replaces the one kept.
RECURSIVE MaxFrom_LastWins(_, _)
MaxFrom_LastWins(best, rest) ==
    IF rest = <<>> THEN best
    ELSE MaxFrom_LastWins(IF Head(rest)[2].n >= best[2].n THEN Head(rest) ELSE best,
                          Tail(rest))

\* Line 231: max(results, key=lambda x: x[1]) keeps the first row it met
\* unless a later one is strictly greater.
RECURSIVE MaxFrom(_, _)
MaxFrom(best, rest) ==
    IF rest = <<>> THEN best
    ELSE MaxFrom(IF Head(rest)[2].n > best[2].n THEN Head(rest) ELSE best, Tail(rest))

MaxRow(rows) == MaxFrom(Head(rows), Tail(rows))

\* Lines 229-243: the summary dict (the average as a fraction).
Summary(rows) ==
    [present |-> TRUE,
     total_papers |-> SumCounts(rows),
     avg_num |-> IF rows # <<>> THEN SumCounts(rows) ELSE 0,
     avg_den |-> IF rows # <<>> THEN Len(rows) ELSE 1,
     peak_year |-> IF rows # <<>> THEN << MaxRow(rows)[1] >> ELSE <<>>,
     peak_papers |-> IF rows # <<>> THEN MaxRow(rows)[2] ELSE JNum(0)]

\* Path(output_dir).mkdir (209), then the call of get_paper_count_by_year
\* (212) up to its first loop test (101-103).
AnalyzeKeyword ==
    /\ pc = "analyze"
    /\ \E creatable \in BOOLEAN :
         IF creatable
         THEN /\ dir_created' = TRUE
              /\ results' = <<>>
              /\ year' = start_year
              /\ pc' = "year_loop"
              /\ UNCHANGED << error, exit_code >>
         ELSE /\ Raise("OSError")
              /\ UNCHANGED << dir_created, results, year >>
    /\ UNCHANGED << mode, inputVars, downgraded, attempt, request, response, http, log,
                    csv_attempted, csv_written, chart_attempted, chart_written, summary >>

\* The for statement of line 103: the next year, or the return of line 129,
\* where the locals of the loop are gone.
YearLoop ==
    /\ pc = "year_loop"
    /\ IF LoopContinues(year, end_year)
       THEN /\ attempt' = 0
            /\ log' = <<>>
            /\ pc' = "request"
            /\ UNCHANGED << response, http >>
       ELSE /\ pc' = "save_csv"
            /\ attempt' = 0
            /\ log' = <<>>
            /\ response' = NoneResponse
            /\ http' = NoHttp
    /\ UNCHANGED << mode, inputVars, downgraded, year, request, results,
                    exportVars, error, exit_code >>

\* Line 109 into search_papers up to requests.get (60-73): the request leaves.
IssueRequest ==
    /\ pc = "request"
    /\ request' = SearchParams(search_term, year, RequestedLimit, 0)
    /\ http' = NoHttp
    /\ log' = Append(log, Event("request", "", year))
    /\ pc' = "await"
    /\ UNCHANGED << mode, inputVars, downgraded, year, attempt, response, results,
                    exportVars, error, exit_code >>

\* The request returns (73-86).  A 429 goes on to the cool-down; every other
\* outcome returns from search_papers at once.
ReceiveResponse ==
    /\ pc = "await"
    /\ \E h \in HttpOutcomes :
         /\ http' = h
         /\ log' = Append(log, ResponseEvent(h))
         /\ IF NeedsCoolDown(h)
            THEN /\ pc' = "cooldown"
                 /\ UNCHANGED response
            ELSE /\ pc' = "check"
                 /\ response' = SearchResult(h)
    /\ UNCHANGED << mode, inputVars, downgraded, year, attempt, request, results,
                    exportVars, error, exit_code >>

\* Lines 78-80: time.sleep(60), then return None.
CoolDownSleep ==
    /\ pc = "cooldown"
    /\ log' = Append(log, Event("sleep", "cooldown", CoolDown))
    /\ response' = SearchResult(http)
    /\ pc' = "check"
    /\ UNCHANGED << mode, inputVars, downgraded, year, attempt, request, http, results,
                    exportVars, error, exit_code >>

\* Lines 111-124: record the count, retry, or record the zero.  Formatting a
\* non-number with "," (114) raises when verbose.
CheckResponse ==
    /\ pc = "check"
    /\ IF IsSuccess(response)
       THEN IF verbose /\ ~IsNumber(response.total)
            THEN /\ Raise("TypeError")
                 /\ UNCHANGED << results, log, downgraded >>
            ELSE /\ results' = RecordSuccess(results, year, response.total)
                 /\ log' = Append(log, Event("append", "success", response.total.n))
                 /\ pc' = AfterSuccess(attempt)
                 /\ UNCHANGED << downgraded, error, exit_code >>
       ELSE IF MayRetry(attempt)
       THEN /\ pc' = "retry_sleep"
            /\ UNCHANGED << results, log, downgraded, error, exit_code >>
       ELSE /\ results' = RecordFailure(results, year)
            /\ log' = Append(log, Event("append", "failed", 0))
            /\ downgraded' = downgraded \cup {year}
            /\ pc' = "year_sleep"
            /\ UNCHANGED << error, exit_code >>
    /\ UNCHANGED << mode, inputVars, year, attempt, request, response, http,
                    exportVars >>

\* Line 120: time.sleep(5), then the next attempt of the same year.
RetrySleep ==
    /\ pc = "retry_sleep"
    /\ log' = Append(log, Event("sleep", "retry", RetryDelay))
    /\ attempt' = attempt + 1
    /\ pc' = "request"
    /\ UNCHANGED << mode, inputVars, downgraded, year, request, response, http, results,
                    exportVars, error, exit_code >>

\* Line 127: time.sleep(random.uniform(2, 3)), then back to the for statement.
YearSleep ==
    /\ pc = "year_sleep"
    /\ \E d \in YearDelayMin..YearDelayMax :
         log' = YearDelayLog(log, year, end_year, d)
    /\ year' = year + 1
    /\ pc' = "year_loop"
    /\ UNCHANGED << mode, inputVars, downgraded, attempt, request, response, http, results,
                    exportVars, error, exit_code >>

\* Lines 215-220: save_to_csv; an unwritable destination raises.
SaveCsv ==
    /\ pc = "save_csv"
    /\ csv_attempted' = TRUE
    /\ \E writable \in BOOLEAN :
         IF writable
         THEN /\ csv_written' = TRUE
              /\ pc' = "chart"
              /\ UNCHANGED << error, exit_code >>
         ELSE /\ Raise("OSError")
              /\ UNCHANGED csv_written
    /\ UNCHANGED << mode, inputVars, loopVars, dir_created, chart_attempted,
                    chart_written, summary >>

\* Lines 223-226: create_histogram when asked for and there are rows.  A
\* non-number among the counts raises before savefig (153); so does an
\* unwritable destination (166).
GenerateChart ==
    /\ pc = "chart"
    /\ IF generate_chart /\ results # <<>>
       THEN /\ chart_attempted' = TRUE
            /\ IF HasNonNumber(results)
               THEN /\ Raise("TypeError")
                    /\ UNCHANGED chart_written
               ELSE \E writable \in BOOLEAN :
                      IF writable
                      THEN /\ chart_written' = TRUE
                           /\ pc' = "summary"
                           /\ UNCHANGED << error, exit_code >>
                      ELSE /\ Raise("OSError")
                           /\ UNCHANGED chart_written
       ELSE /\ pc' = "summary"
            /\ UNCHANGED << chart_attempted, chart_written, error, exit_code >>
    /\ UNCHANGED << mode, inputVars, loopVars, dir_created, csv_attempted,
                    csv_written, summary >>

\* Lines 229-254: the summary; sum() over a non-number raises.
Summarize ==
    /\ pc = "summary"
    /\ IF HasNonNumber(results)
       THEN /\ Raise("TypeError")
            /\ UNCHANGED summary
       ELSE /\ summary' = Summary(results)
            /\ pc' = IF mode = "api" THEN "returned" ELSE "complete"
            /\ UNCHANGED << error, exit_code >>
    /\ UNCHANGED << mode, inputVars, loopVars, dir_created, csv_attempted, csv_written,
                    chart_attempted, chart_written >>

\* Lines 370 and 404: main prints the completion line and ends normally.
MainReturn ==
    /\ pc = "complete"
    /\ pc' = "exit"
    /\ exit_code' = 0
    /\ UNCHANGED << mode, inputVars, loopVars, exportVars, error >>

Next ==
    \/ ParseArgs
    \/ ValidateArgs
    \/ PromptSearchTerm
    \/ PromptStartYear
    \/ PromptEndYear
    \/ PromptOptions
    \/ CallAnalyzeKeyword
    \/ AnalyzeKeyword
    \/ YearLoop
    \/ IssueRequest
    \/ ReceiveResponse
    \/ CoolDownSleep
    \/ CheckResponse
    \/ RetrySleep
    \/ YearSleep
    \/ SaveCsv
    \/ GenerateChart
    \/ Summarize
    \/ MainReturn

Spec == Init /\ [][Next]_vars

\* The thread of control is never suspended for good: every step that can
\* be taken eventually is (each request returns, each sleep ends, the user
\* eventually types an accepted value).
FairSpec == Spec /\ WF_vars(Next)

TypeOK ==
    /\ pc \in { "main", "validate", "prompt_term", "prompt_start", "prompt_end",
                "prompt_options", "analyze", "year_loop", "request", "await",
                "cooldown", "check", "retry_sleep", "year_sleep", "save_csv",
                "chart", "summary", "complete", "returned", "raised", "exit" }
    /\ mode \in { "none", "cli", "interactive", "api" }
    /\ attempt \in 0..(MaxAttempts - 1)
    /\ exit_code \in { -1, 0, 1 }

\* ------------------------------------------------------------ vocabulary
InLoop ==
    pc \in { "year_loop", "request", "await", "cooldown", "check",
             "retry_sleep", "year_sleep" }

\* get_paper_count_by_year has run through its range: it is at the return
\* of line 129 or has returned.
LoopDone ==
    \/ pc = "year_loop" /\ year > end_year
    \/ pc \in { "save_csv", "chart", "summary", "complete", "returned" }
    \/ csv_attempted

\* The only exception get_paper_count_by_year lets out: a total that is no
\* number, formatted at line 114.
LoopError == error = "TypeError" /\ dir_created /\ ~csv_attempted

RangeYears == start_year..end_year

Requests(l) == { i \in 1..Len(l) : l[i].ev = "request" }
Responses(l, kinds) == { i \in 1..Len(l) : l[i].ev = "response" /\ l[i].kind \in kinds }
Appends(l, kind) == { i \in 1..Len(l) : l[i].ev = "append" /\ l[i].kind = kind }

YearSleeps(l) == { i \in 1..Len(l) : l[i].ev = "sleep" /\ l[i].kind = "year" }
RetrySleeps(l) == { i \in 1..Len(l) : l[i].ev = "sleep" /\ l[i].kind = "retry" }
CoolDowns(l) == { i \in 1..Len(l) : l[i].ev = "sleep" /\ l[i].kind = "cooldown" }

GenericFailureKinds == { "http_error", "network_error", "ok_no_total" }
FailureKinds == GenericFailureKinds \cup { "rate_limited" }

\* ------------------------------------------------------------------- C1
\* C1: the rows of results are the years start_year, start_year + 1, ... in
\* order, one row each, at every moment; and once the loop has run through
\* a range with start_year <= end_year there are exactly
\* end_year - start_year + 1 of them, whatever the remote service answered.
C1_OneRowPerYearInOrder ==
    /\ \A i \in 1..Len(results) : results[i][1] = start_year + i - 1
    /\ (LoopDone /\ start_year <= end_year)
          => Len(results) = end_year - start_year + 1

\* A two-year range has been run through, the first year given up after
\* three failed attempts, the last after a rate limit among its answers.
C1_Witness ==
    /\ pc = "year_loop" /\ year > end_year
    /\ end_year = start_year + 1
    /\ start_year \in downgraded
    /\ Responses(log, {"rate_limited"}) # {}
    /\ Len(results) = 2

\* ------------------------------------------------------------------- C2
\* C2 as claimed: a year is given up (count 0) only after 3 generic
\* failures; rate-limit answers never count towards giving up.
C2_RateLimitNotCounted ==
    Appends(log, "failed") # {}
        => Cardinality(Responses(log, GenericFailureKinds)) = MaxAttempts

\* C2 amended: a rate-limit answer consumes one of the year's 3 attempts
\* exactly as a generic failure does.  After the cool-down the request for
\* the same year is issued again only while fewer than 3 attempts were made
\* (after the retry delay), and a year is given up after 3 attempts that
\* did not succeed, rate-limited ones included; never more than 3 requests
\* are issued for a year.
C2_RateLimitConsumesAttempt ==
    /\ Cardinality(Requests(log)) <= MaxAttempts
    /\ Appends(log, "failed") # {}
          => /\ Cardinality(Requests(log)) = MaxAttempts
             /\ Cardinality(Responses(log, FailureKinds)) = MaxAttempts
    /\ \A i \in Responses(log, {"rate_limited"}) :
          /\ i + 1 <= Len(log) => log[i + 1] = Event("sleep", "cooldown", CoolDown)
          /\ i + 2 <= Len(log) =>
                IF Cardinality({ j \in Requests(log) : j < i }) < MaxAttempts
                THEN log[i + 2] = Event("sleep", "retry", RetryDelay)
                ELSE log[i + 2] = Event("append", "failed", 0)
          /\ (i + 3 <= Len(log) /\ log[i + 2].ev = "sleep")
                => log[i + 3] = Event("request", "", log[1].val)

\* A year given up after three rate-limit answers and no generic failure.
C2_Witness ==
    /\ pc = "year_sleep"
    /\ Cardinality(Responses(log, {"rate_limited"})) = MaxAttempts
    /\ Appends(log, "failed") # {}
    /\ results[Len(results)] = Row(year, JNum(0))

\* ------------------------------------------------------------------- C3
\* C3: a year whose 3 attempts all failed is recorded as (year, 0), after a
\* request for it, and the loop goes on: get_paper_count_by_year raises
\* nothing because of failed attempts (the one exception it lets out is for
\* an answered request whose total is no number), and once it has run
\* through the range every year of it, the years after a failed one
\* included, was requested and has its row.
C3_FailedYearIsZeroAndLoopGoesOn ==
    /\ \A y \in downgraded : \E i \in 1..Len(results) : results[i] = Row(y, JNum(0))
    /\ Appends(log, "failed") # {}
          => /\ Cardinality(Requests(log)) = MaxAttempts
             /\ \A j \in Requests(log) : log[j].val \in downgraded
    /\ Appends(log, "success") \cup Appends(log, "failed") # {}
          => /\ Requests(log) # {}
             /\ \A j \in Requests(log) : log[j].val = results[Len(results)][1]
    /\ (error # "" /\ dir_created /\ ~csv_attempted)
          => /\ error = "TypeError"
             /\ http = [status |-> "ok", total |-> JNull]
    /\ (LoopDone /\ downgraded # {})
          => \A y \in RangeYears : \E i \in 1..Len(results) : results[i][1] = y

\* The first of two years was given up, and the second was then requested
\* and recorded with the total the service reported.
C3_Witness ==
    /\ pc = "year_sleep"
    /\ downgraded = {start_year}
    /\ year = start_year + 1
    /\ year = end_year
    /\ Requests(log) # {}
    /\ results = << Row(start_year, JNum(0)), Row(year, JNum(2)) >>
    /\ error = ""

\* ------------------------------------------------------------------- C4
\* C4: the count recorded for a year is the total of the first successful
\* answer received for it, and no request for the year follows that answer;
\* in particular a rate-limit answer followed by a success with total t
\* records (year, t).
C4_FirstSuccessIsRecorded ==
    \A i \in Responses(log, {"ok"}) :
        /\ \A j \in Responses(log, {"ok"}) : j = i
        /\ \A j \in Requests(log) : j < i
        /\ i + 1 <= Len(log)
              => /\ log[i + 1] = Event("append", "success", log[i].val)
                 /\ results[Len(results)] = Row(log[1].val, JNum(log[i].val))

\* The year's first answer was a rate limit, its second a success with
\* total 2, and (year, 2) is the row recorded.
C4_Witness ==
    /\ pc = "year_sleep"
    /\ Len(log) = 7
    /\ log[2] = Event("response", "rate_limited", 0)
    /\ log[6] = Event("response", "ok", 2)
    /\ results[Len(results)] = Row(year, JNum(2))

C6_ReversedRangeRejected ==
    (mode = "cli" /\ start_year > end_year /\ pc # "validate")
        => /\ pc = "exit"
           /\ exit_code = 1
           /\ request = NoRequest
           /\ results = <<>>
           /\ ~dir_created
           /\ ~csv_attempted /\ ~csv_written
           /\ ~chart_attempted /\ ~chart_written

\* A command-line run with a non-empty term and a reversed range inside the
\* accepted window has ended.
C6_Witness ==
    /\ mode = "cli"
    /\ pc = "exit"
    /\ search_term = << " ", "q" >>
    /\ start_year = NowYear + 1
    /\ end_year = NowYear
    /\ exit_code = 1

\* ------------------------------------------------------------------- C7
\* C7: in both input modes of main an empty search term is rejected before
\* the loop: no request of a run of main carries the empty string as query.
C7_NoRequestWithEmptyTerm ==
    (mode \in { "cli", "interactive" } /\ request # NoRequest)
        => request.query # <<>>

\* ------------------------------------------------------------------- C8
\* C8: the order is fixed: all years are fetched, then the CSV is written,
\* then the chart is rendered.  When the CSV export fails the exception
\* leaves analyze_keyword: no chart is attempted, no summary is returned,
\* and main exits with status 1.
C8_CsvFailureEndsRun ==
    /\ csv_attempted
          => /\ LoopDone
             /\ start_year <= end_year => Len(results) = end_year - start_year + 1
    /\ chart_attempted => csv_written
    /\ summary.present => csv_written /\ (chart_attempted => chart_written)
    /\ (csv_attempted /\ ~csv_written)
          => /\ error = "OSError"
             /\ ~chart_attempted /\ ~chart_written
             /\ ~summary.present
             /\ pc = IF mode = "api" THEN "raised" ELSE "exit"
             /\ mode # "api" => exit_code = 1

\* A command-line run that asked for the chart fetched both years of its
\* range and ended on the failed CSV export.
C8_Witness ==
    /\ mode = "cli"
    /\ generate_chart
    /\ Len(results) = 2
    /\ csv_attempted /\ ~csv_written
    /\ pc = "exit"
    /\ exit_code = 1

\* ------------------------------------------------------------------- C9
\* C9: the total_papers of a returned summary is the sum of the counts of
\* the rows: every count weighed by the number of rows that carry it.
CountValues == { results[i][2].n : i \in 1..Len(results) }

RECURSIVE Weighted(_)
Weighted(vs) ==
    IF vs = {} THEN 0
    ELSE LET v == CHOOSE x \in vs : TRUE IN
         v * Cardinality({ i \in 1..Len(results) : results[i][2].n = v })
           + Weighted(vs \ {v})

C9_TotalIsSumOfCounts ==
    summary.present => summary.total_papers = Weighted(CountValues)

\* A summary over a year given up (0) and a year with 2 papers.
C9_Witness ==
    /\ summary.present
    /\ downgraded = {start_year}
    /\ results = << Row(start_year, JNum(0)), Row(start_year + 1, JNum(2)) >>
    /\ summary.total_papers = 2

\* ------------------------------------------------------------------ C10
\* C10: the peak of a returned summary is the row with the greatest count,
\* the earliest such row when several share it; over no rows the peak is
\* absent (peak_year None, peak_papers 0) and nothing is raised.
C10_PeakIsFirstMaximum ==
    /\ summary.present =>
          IF results = <<>>
          THEN summary.peak_year = <<>> /\ summary.peak_papers = JNum(0)
          ELSE \E i \in 1..Len(results) :
                 /\ summary.peak_year = << results[i][1] >>
                 /\ summary.peak_papers = results[i][2]
                 /\ \A j \in 1..Len(results) : results[j][2].n <= results[i][2].n
                 /\ \A j \in 1..(i - 1) : results[j][2].n < results[i][2].n
    /\ (results = <<>> /\ csv_written) => error = ""
    /\ (results = <<>> /\ pc \in { "returned", "exit" } /\ csv_written) => summary.present

\* Two years share the greatest count and the peak is the first of them.
C10_Witness ==
    /\ summary.present
    /\ Len(results) = 2
    /\ results[1][2] = JNum(2)
    /\ results[2][2] = JNum(2)
    /\ summary.peak_year = << start_year >>
    /\ summary.peak_papers = JNum(2)

\* ------------------------------------------------------------------ C11
\* C11: the step that gives a year up leaves the returned value exactly as
\* a success with total 0 for that year would: the same two-field row is
\* appended, at the same place, and the loop goes on from the same point.
\* A run with three failed attempts for a year and a run with a genuine
\* zero for it therefore return identical sequences.
C11_FailureZeroIsGenuineZero ==
    [][ (pc = "check" /\ ~IsSuccess(response) /\ pc' # "retry_sleep")
            => /\ results' = RecordSuccess(results, year, JNum(0))
               /\ Len(results'[Len(results')]) = 2
               /\ pc' = "year_sleep"
               /\ year' = year
               /\ error' = error ]_vars

\* A returned sequence with two equal zero rows, the first a genuine zero
\* and the second a year given up.
C11_Witness ==
    /\ pc = "year_loop" /\ year > end_year
    /\ results = << Row(start_year, JNum(0)), Row(end_year, JNum(0)) >>
    /\ end_year = start_year + 1
    /\ downgraded = {end_year}

\* ------------------------------------------------------------------ C12
\* C12: when the loop goes from a year y to the first request of year
\* y + 1, what happened since the requests of y holds exactly one
\* inter-year delay, of 2 to 3 seconds, as the last thing after the row of
\* y was appended, be that row a success or a zero after failures; and the
\* first request of y + 1 is the next thing to happen.
C12_OneDelayBetweenYears ==
    [][ /\ (pc = "year_loop" /\ pc' = "request" /\ results # <<>>)
            => /\ Requests(log) # {}
               /\ \A i \in Requests(log) : log[i].val = year - 1
               /\ YearSleeps(log) = { Len(log) }
               /\ log[Len(log)].val \in YearDelayMin..YearDelayMax
               /\ Appends(log, "success") \cup Appends(log, "failed") = { Len(log) - 1 }
               /\ results[Len(results)][1] = year - 1
               /\ log' = <<>> /\ attempt' = 0 /\ year' = year
        /\ (pc = "request" /\ attempt = 0 /\ pc' = "await")
            => /\ log = <<>>
               /\ log' = << Event("request", "", year) >> ]_vars

\* The delay has been taken after a year that was given up, and a further
\* year is to come.
C12_Witness ==
    /\ pc = "year_loop" /\ year <= end_year
    /\ (year - 1) \in downgraded
    /\ Appends(log, "failed") # {}
    /\ log[Len(log)] = Event("sleep", "year", YearDelayMax)

\* ------------------------------------------------------------------ C13
\* C13: within a year each generic failure (network error, error status
\* other than 429, body without total) uses up one attempt: the attempts
\* made are one more than the retry delays taken.  A generic failure of the
\* first or second attempt is followed by the 5 second delay and then by
\* the next request for the same year; the one of the third attempt is
\* followed by the zero row and no delay of 5.  A retry delay only ever
\* follows a failed attempt, never a success or a recorded row.
C13_GenericFailureUsesOneAttempt ==
    /\ Cardinality(RetrySleeps(log)) = attempt
    /\ Cardinality(Requests(log)) <= attempt + 1
    /\ \A i \in Responses(log, GenericFailureKinds) :
          LET nth == Cardinality({ j \in Requests(log) : j < i })
          IN  /\ (i + 1 <= Len(log) /\ nth < MaxAttempts)
                    => log[i + 1] = Event("sleep", "retry", RetryDelay)
              /\ (i + 2 <= Len(log) /\ nth < MaxAttempts)
                    => log[i + 2] = Event("request", "", log[1].val)
              /\ (i + 1 <= Len(log) /\ nth = MaxAttempts)
                    => log[i + 1] = Event("append", "failed", 0)
              /\ nth <= MaxAttempts
    /\ \A i \in RetrySleeps(log) :
          /\ i > 1
          /\ log[i].val = RetryDelay
          /\ \/ log[i - 1].ev = "response" /\ log[i - 1].kind \in GenericFailureKinds
             \/ log[i - 1] = Event("sleep", "cooldown", CoolDown)
    /\ \A i \in Appends(log, "success") \cup Appends(log, "failed") :
          \A j \in RetrySleeps(log) : j < i

\* Three generic failures in a year: two retry delays, then the zero row.
C13_Witness ==
    /\ pc = "year_sleep"
    /\ Cardinality(Responses(log, GenericFailureKinds)) = MaxAttempts
    /\ Cardinality(RetrySleeps(log)) = MaxAttempts - 1
    /\ log[Len(log)] = Event("append", "failed", 0)

\* ------------------------------------------------------------------ C14
\* C14: every 429 answer is followed at once by the cool-down of 60
\* seconds, and nothing else happens before it is over: while a 429 is the
\* last thing that happened the program is in the cool-down and nowhere
\* else, so wherever a request can be issued, for this year or a later
\* one, every 429 answer has had its cool-down.  A cool-down only ever
\* follows a 429 answer.
C14_CoolDownAfterEveryRateLimit ==
    /\ \A i \in Responses(log, {"rate_limited"}) :
          i + 1 <= Len(log) => log[i + 1] = Event("sleep", "cooldown", CoolDown)
    /\ (pc = "cooldown")
          <=> (log # <<>> /\ log[Len(log)] = Event("response", "rate_limited", 0))
    /\ pc # "cooldown"
          => Cardinality(CoolDowns(log)) = Cardinality(Responses(log, {"rate_limited"}))
    /\ \A i \in CoolDowns(log) :
          i > 1 /\ log[i - 1] = Event("response", "rate_limited", 0)
    /\ pc = "cooldown" => (request # NoRequest /\ http.status = "rate_limited")

\* A 429 answered the third attempt of a year; its cool-down was taken
\* before the year was given up, and a later year is still to be requested.
C14_Witness ==
    /\ pc = "year_loop" /\ year <= end_year
    /\ Len(log) >= 4
    /\ log[Len(log) - 3] = Event("response", "rate_limited", 0)
    /\ log[Len(log) - 2] = Event("sleep", "cooldown", CoolDown)
    /\ log[Len(log) - 1] = Event("append", "failed", 0)
    /\ Cardinality(Requests(log)) = MaxAttempts

\* ------------------------------------------------------------------ C15
\* C15 as claimed: an answer whose total is no number is handled as a
\* generic failure: it is never recorded and never raises, so every count
\* in results is a non-negative integer.
C15_EveryCountIsANumber ==
    /\ \A i \in 1..Len(results) :
          IsNumber(results[i][2]) /\ results[i][2].n >= 0
    /\ \A i \in Responses(log, {"ok_non_number"}) :
          i + 1 <= Len(log) => log[i + 1].ev # "append"
    /\ ~LoopError

\* ------------------------------------------------------------------ C16
\* C16: requests go out one at a time and year by year.  A request is
\* outstanding only while the program waits for its answer, and every
\* request is answered before anything else happens.  While a year is
\* being requested, the rows of all the years before it, and of no other
\* year, are already in results, and every request made since the loop
\* came to that year is for it.  Once the row of a year is appended no
\* request follows for that year: the next request is for the next year.
C16_SequentialInYearOrder ==
    LET answers == { i \in 1..Len(log) : log[i].ev = "response" }
        rows    == Appends(log, "success") \cup Appends(log, "failed")
        outstanding == Cardinality(Requests(log)) - Cardinality(answers)
    IN  /\ outstanding \in {0, 1}
        /\ (outstanding = 1) <=> (pc = "await")
        /\ \A i \in Requests(log) : i + 1 <= Len(log) => log[i + 1].ev = "response"
        /\ pc \in { "request", "await", "cooldown", "check", "retry_sleep" }
              => /\ year = start_year + Len(results)
                 /\ \A i \in 1..Len(results) : results[i][1] < year
                 /\ \A i \in Requests(log) : log[i].val = year
                 /\ rows = {}
                 /\ pc = "await" => request.year = year
        /\ Cardinality(rows) <= 1
        /\ \A a \in rows : \A r \in Requests(log) : r < a
        /\ pc = "year_sleep"
              => /\ rows # {}
                 /\ results # <<>> /\ results[Len(results)][1] = year
                 /\ \A i \in Requests(log) : log[i].val = year

\* The second request for the second year of a range is outstanding, the
\* row of the first year recorded.
C16_Witness ==
    /\ pc = "await"
    /\ attempt = 1
    /\ Len(results) = 1
    /\ results[1][1] = start_year
    /\ request.year = start_year + 1

\* ------------------------------------------------------------------ C17
\* C17 as claimed: every request that is out carries the year filter, set
\* to the year being counted, and a limit of at most 100.
C17_EveryRequestFiltered ==
    pc = "await"
        => /\ request.has_year
           /\ request.year = year
           /\ request.limit <= ApiMaxLimit

\* ------------------------------------------------------------------ C18
\* C18: whatever the service answers, 429 included, at most 3 requests are
\* issued for a year: the requests made since the loop came to a year are
\* all for that one year of the range, number at most 3, and the n-th of
\* them is the attempt n - 1.  Every year of the range is come to once, so
\* 3 for each finished year and the requests of the year under way never
\* exceed 3 * N.  A year is given up only after exactly 3 requests for it,
\* each one answered by a failure or a 429.
C18_AtMostThreeRequestsPerYear ==
    LET n     == Cardinality(Requests(log))
        rows  == Appends(log, "success") \cup Appends(log, "failed")
        years == end_year - start_year + 1
    IN  /\ n <= MaxAttempts
        /\ n > 0 => /\ log[1].ev = "request"
                    /\ log[1].val \in RangeYears
                    /\ \A i \in Requests(log) : log[i].val = log[1].val
        /\ pc = "await" => /\ n = attempt + 1
                           /\ year = start_year + Len(results)
                           /\ year \in RangeYears
        /\ n > 0 => MaxAttempts * Len(results) + (IF rows = {} THEN n ELSE 0)
                        <= MaxAttempts * years
        /\ \A a \in Appends(log, "failed") :
              /\ Cardinality({ r \in Requests(log) : r < a }) = MaxAttempts
              /\ Cardinality({ r \in Responses(log, FailureKinds) : r < a }) = MaxAttempts
        /\ \A y \in downgraded : y \in RangeYears /\ y <= year

\* Both years of a range given up, the last after a 429 and a generic
\* failure among its three answers: 3 * N requests were issued.
C18_Witness ==
    /\ pc = "year_sleep"
    /\ end_year = start_year + 1
    /\ downgraded = { start_year, end_year }
    /\ Cardinality(Requests(log)) = MaxAttempts
    /\ Responses(log, {"rate_limited"}) # {}
    /\ Responses(log, GenericFailureKinds) # {}

\* ------------------------------------------------------------------ C19
\* C19: the loop leaves a year, the last one included, by taking the
\* inter-year delay once, right after the row of the year was appended,
\* and in no other way; so when the function returns after N years it has
\* taken N delays, and the last thing it did was the delay that follows
\* the last row.
C19_DelayAfterEveryYear ==
    [][ /\ (pc = "year_sleep")
            => /\ log # <<>> /\ log[Len(log)].ev = "append"
               /\ results[Len(results)][1] = year
               /\ Len(log') = Len(log) + 1
               /\ YearSleeps(log') = { Len(log') }
               /\ log'[Len(log')].val \in YearDelayMin..YearDelayMax
               /\ year' = year + 1
               /\ results' = results
               /\ pc' = "year_loop"
        /\ (year' # year) => (pc = "year_sleep" \/ pc = "analyze")
        /\ (pc = "year_loop" /\ pc' = "save_csv" /\ start_year <= end_year)
            => /\ YearSleeps(log) = { Len(log) }
               /\ log[Len(log) - 1].ev = "append"
               /\ year - start_year = end_year - start_year + 1
               /\ Len(results) = year - start_year
               /\ results[Len(results)][1] = end_year
               /\ results' = results ]_vars

\* The delay after the last year of a two-year range has been taken and
\* the function is about to return.
C19_Witness ==
    /\ pc = "year_loop" /\ year = end_year + 1
    /\ year - start_year = 2
    /\ log[Len(log)].ev = "sleep" /\ log[Len(log)].kind = "year"
    /\ log[Len(log) - 1].ev = "append"
    /\ results[Len(results)][1] = end_year

====
